---- MODULE Spec2Model ----
(***************************************************************************)
(* Model of mcp_python_runner/server.py: the execute_python_code tool      *)
(* (working directory initialisation, memoised requirement installation,   *)
(* script execution, output-file diff and classification) and the two     *)
(* file readers read_file and read_image_file.                             *)
(*                                                                         *)
(* Text is modelled as a sequence of one-character strings, so that        *)
(* split, strip, startswith, splitext, lower and sorted are computed the   *)
(* way the Python code computes them.                                      *)
(***************************************************************************)
EXTENDS Integers, Sequences, FiniteSets, TLC

(***************************************************************************)
(* Bounds of the model.                                                    *)
(***************************************************************************)
\* total number of execute_python_code requests issued in one behaviour of
\* the installer's view and of the output view
MaxInstallCalls == 3
MaxOutputCalls == 2
MaxLiveCalls == 2
MaxTextCalls == 1
\* request slots: at most this many requests are in flight at the same time
Requests == {1, 2}

(***************************************************************************)
(* Text helpers (Python str methods).                                      *)
(***************************************************************************)
Range(s) == {s[i] : i \in DOMAIN s}

\* U+0060, the character of a markdown fence (the one character a TLA+ string
\* cannot hold, so it is named)
backquote == "GRAVE"

\* code-point order of the characters the model uses
Alphabet ==
    << "\t", "\n", "\r", " ", ".", "/", "0", "1", "2", "4", ":",
       "A", "B", "C", "D", "E", "F", "G", "H", "I", "J", "K", "L", "M",
       "N", "O", "P", "Q", "R", "S", "T", "U", "V", "W", "X", "Y", "Z",
       "_", backquote,
       "a", "b", "c", "d", "e", "f", "g", "h", "i", "j", "k", "l", "m",
       "n", "o", "p", "q", "r", "s", "t", "u", "v", "w", "x", "y", "z" >>

ord(c) == CHOOSE i \in DOMAIN Alphabet : Alphabet[i] = c

\* str.lower() on one character: "A".."Z" sit 28 places before "a".."z"
lower_char(c) ==
    IF ord(c) >= ord("A") /\ ord(c) <= ord("Z")
    THEN Alphabet[ord(c) - ord("A") + ord("a")]
    ELSE c

lower(s) == [i \in DOMAIN s |-> lower_char(s[i])]

isspace(c) == c \in {" ", "\t", "\n", "\r"}

RECURSIVE lstrip(_)
lstrip(s) == IF s # <<>> /\ isspace(Head(s)) THEN lstrip(Tail(s)) ELSE s

RECURSIVE rstrip(_)
rstrip(s) ==
    IF s # <<>> /\ isspace(s[Len(s)]) THEN rstrip(SubSeq(s, 1, Len(s) - 1)) ELSE s

strip(s) == rstrip(lstrip(s))

startswith(s, p) == Len(s) >= Len(p) /\ SubSeq(s, 1, Len(p)) = p

endswith(s, p) == Len(s) >= Len(p) /\ SubSeq(s, Len(s) - Len(p) + 1, Len(s)) = p

\* str.split(): the maximal runs of non-whitespace characters, in order
RECURSIVE split_from(_, _, _)
split_from(s, cur, acc) ==
    IF s = <<>>
    THEN IF cur = <<>> THEN acc ELSE Append(acc, cur)
    ELSE IF isspace(Head(s))
         THEN split_from(Tail(s), <<>>, IF cur = <<>> THEN acc ELSE Append(acc, cur))
         ELSE split_from(Tail(s), Append(cur, Head(s)), acc)

split(s) == split_from(s, <<>>, <<>>)

\* str < str: lexicographic comparison by code point
RECURSIVE str_less(_, _)
str_less(a, b) ==
    IF b = <<>> THEN FALSE
    ELSE IF a = <<>> THEN TRUE
    ELSE IF Head(a) = Head(b) THEN str_less(Tail(a), Tail(b))
    ELSE ord(Head(a)) < ord(Head(b))

\* sorted(S) for a set of strings
RECURSIVE sorted(_)
sorted(S) ==
    IF S = {} THEN <<>>
    ELSE LET m == CHOOSE x \in S : \A y \in S \ {x} : str_less(x, y)
         IN  <<m>> \o sorted(S \ {m})

\* "sep".join(lines)
RECURSIVE join(_, _)
join(sep, lines) ==
    IF lines = <<>> THEN <<>>
    ELSE IF Len(lines) = 1 THEN lines[1]
    ELSE lines[1] \o sep \o join(sep, Tail(lines))

\* os.path.splitext(name)[1] for a name without directory separators:
\* the text from the last dot on, unless only dots precede that dot
last_dot(name) ==
    IF \E i \in DOMAIN name : name[i] = "."
    THEN CHOOSE i \in DOMAIN name :
            name[i] = "." /\ \A j \in DOMAIN name : name[j] = "." => j <= i
    ELSE 0

splitext_ext(name) ==
    LET d == last_dot(name)
    IN  IF d > 0 /\ \E j \in 1 .. (d - 1) : name[j] # "."
        THEN SubSeq(name, d, Len(name))
        ELSE <<>>

(***************************************************************************)
(* Paths (pathlib.Path on POSIX).  A path is text; its parts are the       *)
(* names between the separators.  The modelled tree has no symbolic links. *)
(***************************************************************************)
RECURSIVE raw_parts(_, _, _)
raw_parts(s, cur, acc) ==
    IF s = <<>>
    THEN Append(acc, cur)
    ELSE IF Head(s) = "/"
         THEN raw_parts(Tail(s), <<>>, Append(acc, cur))
         ELSE raw_parts(Tail(s), Append(cur, Head(s)), acc)

\* Path(p).parts without the anchor: empty and "." components are dropped
path_parts(p) ==
    LET raw == raw_parts(p, <<>>, <<>>)
    IN  SelectSeq(raw, LAMBDA c : c # <<>> /\ c # <<".">>)

is_absolute(p) == p # <<>> /\ Head(p) = "/"

\* str() of an absolute path given by its parts
RECURSIVE path_str(_)
path_str(parts) ==
    IF parts = <<>> THEN <<"/">>
    ELSE IF Len(parts) = 1 THEN <<"/">> \o parts[1]
    ELSE path_str(SubSeq(parts, 1, Len(parts) - 1)) \o <<"/">> \o parts[Len(parts)]

\* the working directory of the service: /w
default_working_dir == << <<"w">> >>

\* default_working_dir / Path(file_path): an absolute right operand replaces
\* the left one
joinpath(base, file_path) ==
    IF is_absolute(file_path)
    THEN path_parts(file_path)
    ELSE base \o path_parts(file_path)

\* Path.resolve() on a tree without symbolic links: ".." drops the part
\* before it and the parent of the root is the root
RECURSIVE resolve_from(_, _)
resolve_from(parts, acc) ==
    IF parts = <<>> THEN acc
    ELSE IF Head(parts) = <<".", ".">>
         THEN resolve_from(Tail(parts),
                           IF acc = <<>> THEN <<>> ELSE SubSeq(acc, 1, Len(acc) - 1))
         ELSE resolve_from(Tail(parts), Append(acc, Head(parts)))

resolve(parts) == resolve_from(parts, <<>>)

(***************************************************************************)
(* Inputs and environment of the execution engine.                         *)
(***************************************************************************)
\* the requirements strings a request may carry: "", " ", "p", "q", "p q"
RequirementStrings ==
    { <<>>, <<" ">>, <<"p">>, <<"q">>, <<"p", " ", "q">> }

\* the code a request may carry: "x" and "x" inside a python markdown fence
FenceOpen == << backquote, backquote, backquote, "p", "y", "t", "h", "o", "n" >>
FenceClose == << backquote, backquote, backquote >>
Codes ==
    { <<"x">>,
      FenceOpen \o <<"\n", "x", "\n">> \o FenceClose,
      FenceOpen \o <<"\n", "x", "y", "\n">> \o FenceClose,
      FenceOpen \o <<"\n", "\n", "x", "\n">> \o FenceClose }

\* what a child process may print
StdOuts == { <<"4", "\n">>, <<>> }
ScriptStdErrs == { <<"E", "\n">> }
InstallerStdErrs == { <<"n", "o">> }
ExitCodes == {0, 1}

\* values of the HOST_PROJECT_PATH environment variable; None is "not set"
None == <<"None">>
HostProjectPaths == { None, <<>>, <<"/", "h">> }

\* the entries a script may create in the working directory
UserEntries ==
    { [name |-> <<"a", ".", "P", "N", "G">>, kind |-> "file"],
      [name |-> <<"b", ".", "j", "p", "g">>, kind |-> "file"],
      [name |-> <<"c", ".", "t", "x", "t">>, kind |-> "file"],
      [name |-> <<"d", ".", "g", "i", "f">>, kind |-> "dir"] }

\* the lock file of the dependency manager
LockName == <<"u", "v", ".", "l", "o", "c", "k">>

\* the cache directory
CacheName == <<".", "c", "a", "c", "h", "e">>

\* the name NamedTemporaryFile(suffix='.py', dir=working_dir) gives the script
\* of the request in slot r: unused in the directory, different per request
TempName(r) ==
    <<"t", "m", "p">> \o <<Alphabet[ord("0") + r]>> \o <<".", "p", "y">>

\* files outside the working directory: /wx/s.png (a sibling directory whose
\* name starts with the working directory's name) and /e.png
OutsideTree ==
    ( << <<"w", "x">> >> :> "dir" ) @@
    ( << <<"w", "x">>, <<"s", ".", "p", "n", "g">> >> :> "file" ) @@
    ( << <<"e", ".", "p", "n", "g">> >> :> "file" )

VARIABLES
    installed_packages,  \* dict: working directory -> set of tokens
    environ,             \* os.environ: the variables the code reads or sets
    listing,             \* the working directory: entry name -> kind
    pc,                  \* per request: where its coroutine is suspended
    code,                \* per request: argument code
    requirements,        \* per request: argument requirements
    to_install,          \* per request: local to_install of install_requirements
    temp_path,           \* per request: name of its script file, None before
    script_text,         \* per request: text written to the script file
    files_before,        \* per request: local files_before
    result,              \* per request: what the call returned or raised
    returncode,          \* per request: exit code of its script, -1 before
    last_stdout,         \* per request: stdout of its script, once it exited
    invocations,         \* token -> number of installer processes given it
    calls,               \* number of requests issued so far
    installer,           \* per request: state of its installer process
    covered,             \* tokens of installer processes that exited with 0
    created,             \* per request: entries its script process created
    alone,               \* per request: no other request was in flight with it
    hung                 \* per request: which of its child processes never exits

engine_vars ==
    << installed_packages, environ, listing, pc, code, requirements, to_install,
       temp_path, script_text, files_before, result, returncode, last_stdout,
       invocations, calls, installer, covered, created, alone, hung >>

\* --------------------------------------------------------------- file system
\* kind of the entry at an absolute, resolved path: "file", "dir" or "none"
kind_of(parts) ==
    IF parts = <<>> \/ parts = default_working_dir THEN "dir"
    ELSE IF Len(parts) = Len(default_working_dir) + 1
            /\ SubSeq(parts, 1, Len(default_working_dir)) = default_working_dir
         THEN IF parts[Len(parts)] \in DOMAIN listing
              THEN listing[parts[Len(parts)]]
              ELSE "none"
         ELSE IF parts \in DOMAIN OutsideTree THEN OutsideTree[parts] ELSE "none"

\* the kernel's path walk: every step starts from an existing directory
RECURSIVE walk(_, _)
walk(parts, at) ==
    IF parts = <<>> THEN kind_of(at)
    ELSE IF kind_of(at) # "dir" THEN "none"
    ELSE IF Head(parts) = <<".", ".">>
         THEN walk(Tail(parts), IF at = <<>> THEN <<>> ELSE SubSeq(at, 1, Len(at) - 1))
         ELSE walk(Tail(parts), Append(at, Head(parts)))

\* Path.exists(), Path.is_file()
exists(parts) == walk(parts, <<>>) # "none"
is_file(parts) == walk(parts, <<>>) = "file"

\* os.listdir(working_dir)
listdir == DOMAIN listing

add_entry(dir, name, kind) ==
    [n \in DOMAIN dir \cup {name} |-> IF n = name THEN kind ELSE dir[n]]

remove_entry(dir, name) == [n \in DOMAIN dir \ {name} |-> dir[n]]

\* mkdir(exist_ok=True)
mkdir(dir, name) == IF name \in DOMAIN dir THEN dir ELSE add_entry(dir, name, "dir")

(***************************************************************************)
(* Results: what a tool call returns ("text", "image") or raises ("error"). *)
(* files is the list of new entries the result is built from.               *)
(***************************************************************************)
VARIABLES
    file_data,           \* content of the files of the working directory:
                         \* name -> [size: bytes, utf8: decodes as UTF-8]
    tool_call,           \* the read_file / read_image_file call made, if any
    tool_result          \* what that call returned or raised

file_vars == << file_data, tool_call, tool_result >>

NoResult == [kind |-> "none", exc |-> "", text |-> <<>>, files |-> <<>>, image |-> None]

TextResult(text, files) ==
    [kind |-> "text", exc |-> "", text |-> text, files |-> files, image |-> None]

ImageResult(text, files, image) ==
    [kind |-> "image", exc |-> "", text |-> text, files |-> files, image |-> image]

Raised(exc, message) ==
    [kind |-> "error", exc |-> exc, text |-> message, files |-> <<>>, image |-> None]

AccessDeniedMessage ==
    << "A", "c", "c", "e", "s", "s", " ", "d", "e", "n", "i", "e", "d",
       ":", " ", "F", "i", "l", "e", " ", "p", "a", "t", "h", " ", "i",
       "s", " ", "o", "u", "t", "s", "i", "d", "e", " ", "t", "h", "e",
       " ", "a", "l", "l", "o", "w", "e", "d", " ", "d", "i", "r", "e",
       "c", "t", "o", "r", "y", "." >>

ImageNotFoundPrefix ==
    << "I", "m", "a", "g", "e", " ", "f", "i", "l", "e", " ", "n", "o",
       "t", " ", "f", "o", "u", "n", "d", ":", " " >>

InstallFailedPrefix ==
    << "F", "a", "i", "l", "e", "d", " ", "t", "o", " ", "i", "n", "s",
       "t", "a", "l", "l", " ", "r", "e", "q", "u", "i", "r", "e", "m",
       "e", "n", "t", "s", " ", "u", "s", "i", "n", "g", " ", "u", "v",
       " ", "i", "n", " ", "w", "o", "r", "k", "i", "n", "g", " ", "d",
       "i", "r", "e", "c", "t", "o", "r", "y", ":", " " >>

FilesCreatedAt ==
    << "F", "i", "l", "e", "s", " ", "c", "r", "e", "a", "t", "e", "d",
       " ", "a", "t", " " >>

OutputFilesHeader ==
    << "O", "u", "t", "p", "u", "t", " ", "F", "i", "l", "e", "s", ":" >>

(***************************************************************************)
(* read_image_file                                                         *)
(***************************************************************************)
\* the check of line 221: the text of the resolved path starts with the text
\* of the resolved working directory
within_working_dir(full_path) ==
    startswith(path_str(resolve(full_path)), path_str(resolve(default_working_dir)))

read_image_file(file_path) ==
    LET full_path == joinpath(default_working_dir, file_path)
    IN  IF ~within_working_dir(full_path)
        THEN Raised("ValueError", AccessDeniedMessage)
        ELSE IF ~is_file(full_path)
        THEN Raised("FileNotFoundError", ImageNotFoundPrefix \o file_path)
        ELSE ImageResult(<<>>, <<>>, path_str(full_path))

(***************************************************************************)
(* read_file.  What it returns is described by a record: form is the shape  *)
(* of the returned string ("error", "fenced", "plain", "binary"), error the *)
(* exception whose message an error string carries, bytes_read the bytes    *)
(* read from the file (-1: the file was not read), hex_chars the length of  *)
(* the hex preview.  kind "raised" is an exception that leaves read_file.   *)
(***************************************************************************)
KB == 1024
HexPreviewChars == 1024

\* st_size of a directory
DirSize == 4 * KB

\* content of the files outside the working directory
OutsideData ==
    ( << <<"w", "x">>, <<"s", ".", "p", "n", "g">> >> :> [size |-> 8, utf8 |-> FALSE] ) @@
    ( << <<"e", ".", "p", "n", "g">> >> :> [size |-> 8, utf8 |-> FALSE] )

\* content of the file at a resolved path that is a regular file
data_of(loc) ==
    IF loc \in DOMAIN OutsideData THEN OutsideData[loc] ELSE file_data[loc[Len(loc)]]

\* path.stat().st_size of an existing path
st_size(parts) ==
    IF is_file(parts) THEN data_of(resolve(parts)).size ELSE DirSize

source_code_extensions ==
    { <<".", "p", "y">>, <<".", "j", "s">>, <<".", "h", "t", "m", "l">>,
      <<".", "c", "s", "s">>, <<".", "j", "s", "o", "n">>, <<".", "x", "m", "l">>,
      <<".", "m", "d">>, <<".", "t", "x", "t">>, <<".", "s", "h">>, <<".", "c">>,
      <<".", "c", "p", "p">>, <<".", "j", "a", "v", "a">>, <<".", "r", "b">> }

\* path.suffix: the extension of the last part
suffix(parts) == IF parts = <<>> THEN <<>> ELSE splitext_ext(parts[Len(parts)])

FileReturned(form, error, bytes_read, hex_chars, file_type) ==
    [kind |-> "returned", form |-> form, error |-> error, bytes_read |-> bytes_read,
     hex_chars |-> hex_chars, file_type |-> file_type]

FileRaised(exc) ==
    [kind |-> "raised", form |-> "none", error |-> exc, bytes_read |-> -1,
     hex_chars |-> 0, file_type |-> <<>>]

Min(a, b) == IF a <= b THEN a ELSE b

\* lines 180-181: st_size / 1024 > max_size_kb, a division without rounding
too_large(size, max_size_kb) == size > max_size_kb * KB

\* faulty variant: the handler of line 207 takes FileNotFoundError alone
outer_catches_not_found_only(exc) == exc = "FileNotFoundError"

\* line 207: except Exception
outer_catches(exc) ==
    exc \in {"Exception", "FileNotFoundError", "IsADirectoryError", "UnicodeDecodeError"}

\* lines 187-198: open and read as text
read_as_text(path) ==
    IF ~is_file(path) THEN FileRaised("IsADirectoryError")
    ELSE IF ~data_of(resolve(path)).utf8 THEN FileRaised("UnicodeDecodeError")
    ELSE IF lower(suffix(path)) \in source_code_extensions
    THEN FileReturned("fenced", "", data_of(resolve(path)).size, 0,
                      Tail(suffix(path)))
    ELSE FileReturned("plain", "", data_of(resolve(path)).size, 0, <<>>)

\* lines 200-205: the file is read as bytes and its hex text is cut
read_as_binary(path) ==
    LET size == data_of(resolve(path)).size
    IN  FileReturned("binary", "", size, Min(2 * size, HexPreviewChars), <<>>)

\* lines 176-205: the body of the try statement
read_file_body(path, max_size_kb) ==
    IF ~exists(path) THEN FileRaised("FileNotFoundError")
    ELSE IF too_large(st_size(path), max_size_kb) THEN FileRaised("Exception")
    ELSE LET text == read_as_text(path)
         IN  IF text.kind = "raised" /\ text.error = "UnicodeDecodeError"
             THEN read_as_binary(path)
             ELSE text

read_file(file_path, max_size_kb) ==
    LET path == joinpath(default_working_dir, file_path)
        body == read_file_body(path, max_size_kb)
    IN  IF body.kind = "raised" /\ outer_catches(body.error)
        THEN FileReturned("error", body.error, -1, 0, <<>>)
        ELSE body

(***************************************************************************)
(* install_requirements and execute_python_code                            *)
(***************************************************************************)
\* faulty variant: the memo is never found, as if looked up under another key
installed_done_forgotten(working_dir) == {}

\* installed_packages.get(working_dir) or []
installed_done(working_dir) ==
    IF working_dir \in DOMAIN installed_packages
    THEN installed_packages[working_dir]
    ELSE {}

\* faulty variant: the tokens already installed are not taken out
tokens_to_install_all(reqs, done) == Range(split(reqs))

\* set(requirements.split()).difference(done)
tokens_to_install(reqs, done) == Range(split(reqs)) \ done

\* faulty variant: the new tokens replace the set instead of joining it
installed_after_overwrite(missing, done) == missing

\* line 60: to_install.union(done)
installed_after(missing, done) == missing \cup done

\* faulty variant: the installer's exit code is not looked at
install_failed_never(rc) == FALSE

\* process.returncode != 0 after the installer's communicate()
install_failed(rc) == rc # 0

\* faulty variant: the script's exit code is not looked at
script_succeeded_always(rc) == TRUE

\* process.returncode == 0 after the script's communicate()
script_succeeded(rc) == rc = 0

\* lines 108-110: the markdown fence is cut off by fixed offsets
strip_fence(c) ==
    IF startswith(c, FenceOpen) /\ endswith(c, FenceClose)
    THEN strip(SubSeq(c, 12, Len(c) - 3))
    ELSE c

excluded_dirs == {CacheName}

\* faulty variant: the listing taken before the run is not subtracted
new_files_of_no_before(after, before) == after \ excluded_dirs

\* lines 137-140: files_after - files_before
new_files_of(after, before) == (after \ excluded_dirs) \ before

image_extensions ==
    { <<".", "p", "n", "g">>, <<".", "j", "p", "g">>, <<".", "j", "p", "e", "g">>,
      <<".", "g", "i", "f">>, <<".", "w", "e", "b", "p">> }

\* faulty variant: the extension is compared as written
has_image_extension_as_written(name) == splitext_ext(name) \in image_extensions

\* line 143: the extension of the name, lower-cased, is an image extension
\* (the name and its extension are bound once, as the code's locals are)
has_image_extension(name) ==
    \E n \in {name} : \E ext \in {splitext_ext(n)} : lower(ext) \in image_extensions

\* os.environ.get(key), None when the variable is not set
environ_get(key) == environ[key]

\* faulty variant: the variable counts as soon as it is set, empty or not
header_line_if_set(external_path) ==
    IF external_path # None
    THEN FilesCreatedAt \o external_path \o <<":">>
    ELSE OutputFilesHeader

\* lines 147-150: the header of the file list
header_line(external_path) ==
    IF external_path # None /\ external_path # <<>>
    THEN FilesCreatedAt \o external_path \o <<":">>
    ELSE OutputFilesHeader

\* faulty variant: the script file is deleted on the return paths only
leave_with_block_on_return(dir, name, res) ==
    IF res.kind = "error" THEN dir ELSE remove_entry(dir, name)

\* line 113: NamedTemporaryFile(delete=True) deletes the script file when the
\* with block is left, by return or by raise
leave_with_block(dir, name, res) == remove_entry(dir, name)

\* lines 131-156 for a script that exited with 0
success_result(stdout, after, before) ==
    LET result_for(line1, output_files, header) ==
            IF output_files = <<>>
            THEN TextResult(line1, <<>>)
            ELSE IF Len(output_files) = 1 /\ has_image_extension(output_files[1])
            THEN LET img == read_image_file(output_files[1])
                 IN  IF img.kind = "error" THEN img
                     ELSE ImageResult(line1, output_files, img.image)
            ELSE TextResult(join(<<"\n">>, <<line1, header>> \o output_files), output_files)
    IN  \* the locals are bound once, as in the code
        CHOOSE res \in { result_for(l, o, h) :
                             l \in {strip(stdout)},
                             o \in {sorted(new_files_of(after, before))},
                             h \in {header_line(environ_get("HOST_PROJECT_PATH"))} } : TRUE

\* lines 130-156
run_result(rc, stdout, stderr, after, before) ==
    IF script_succeeded(rc)
    THEN success_result(stdout, after, before)
    ELSE Raised("Exception", strip(stderr))

vars == << engine_vars, file_vars >>

InitWith(host_paths, dirs, datas) ==
    /\ installed_packages = << >>
    /\ environ \in { [HOST_PROJECT_PATH |-> h, UV_CACHE_DIR |-> None] : h \in host_paths }
    /\ listing \in dirs
    /\ pc = [r \in Requests |-> "idle"]
    /\ code = [r \in Requests |-> <<>>]
    /\ requirements = [r \in Requests |-> <<>>]
    /\ to_install = [r \in Requests |-> {}]
    /\ temp_path = [r \in Requests |-> None]
    /\ script_text = [r \in Requests |-> <<>>]
    /\ files_before = [r \in Requests |-> {}]
    /\ result = [r \in Requests |-> NoResult]
    /\ returncode = [r \in Requests |-> -1]
    /\ last_stdout = [r \in Requests |-> <<>>]
    /\ invocations = << >>
    /\ hung = [r \in Requests |-> "none"]
    /\ calls = 0
    /\ installer = [r \in Requests |-> "none"]
    /\ covered = {}
    /\ created = [r \in Requests |-> {}]
    /\ alone = [r \in Requests |-> TRUE]
    /\ file_data \in datas
    /\ tool_call = [tool |-> "none"]
    /\ tool_result = [kind |-> "none"]

\* lines 108-127: the script file is written, the directory is listed and the
\* script process is spawned; the coroutine suspends in communicate()
StartScript(r, c, dir) ==
    LET name == TempName(r)
        dir2 == add_entry(dir, name, "file")
    IN  /\ script_text' = [script_text EXCEPT ![r] = strip_fence(c)]
        /\ temp_path' = [temp_path EXCEPT ![r] = name]
        /\ files_before' = [files_before EXCEPT ![r] = DOMAIN dir2]
        /\ listing' = dir2
        /\ pc' = [pc EXCEPT ![r] = "running"]

\* a request takes the lowest free slot (the slots are interchangeable)
free_slot(r) == pc[r] = "idle" /\ \A o \in Requests : o < r => pc[o] # "idle"

\* faulty variant: waiting for a child process blocks the event loop, so no
\* request resumes while another one still waits for its child
can_resume_blocking(r) ==
    /\ pc[r] \in {"installing", "running"}
    /\ \A o \in Requests \ {r} : pc[o] \notin {"installing", "running"}

\* lines 71 and 128: await process.communicate() suspends the request alone;
\* the event loop resumes it when its own child has exited
can_resume(r) == pc[r] \in {"installing", "running"}

\* a request arrives: initialize_working_dir (lines 41-54), install_requirements
\* up to the installer's communicate() (lines 57-71) or, when nothing is to be
\* installed, execute_python_code up to the script's communicate()
Call(max_calls, r, c, q, h) ==
    /\ calls < max_calls
    /\ free_slot(r)
    /\ hung' = [hung EXCEPT ![r] = h]
    /\ calls' = calls + 1
    /\ code' = [code EXCEPT ![r] = c]
    /\ requirements' = [requirements EXCEPT ![r] = q]
    /\ environ' = [environ EXCEPT !["UV_CACHE_DIR"] =
                       path_str(Append(default_working_dir, CacheName))]
    /\ alone' = [s \in Requests |->
                    IF s = r THEN \A o \in Requests \ {r} : pc[o] = "idle"
                    ELSE IF pc[s] = "idle" THEN alone[s] ELSE FALSE]
    /\ created' = [created EXCEPT ![r] = {}]
    /\ result' = [result EXCEPT ![r] = NoResult]
    /\ returncode' = [returncode EXCEPT ![r] = -1]
    /\ LET dir == mkdir(listing, CacheName)
           done == installed_done(default_working_dir)
           missing == tokens_to_install(q, done)
       IN  IF q # <<>> /\ missing # {}
           THEN /\ installed_packages' =
                      [d \in DOMAIN installed_packages \cup {default_working_dir} |->
                          IF d = default_working_dir THEN installed_after(missing, done)
                          ELSE installed_packages[d]]
                /\ to_install' = [to_install EXCEPT ![r] = missing]
                /\ installer' = [installer EXCEPT ![r] = "running"]
                /\ pc' = [pc EXCEPT ![r] = "installing"]
                /\ invocations' =
                      [t \in DOMAIN invocations \cup missing |->
                          (IF t \in DOMAIN invocations THEN invocations[t] ELSE 0)
                          + (IF t \in missing THEN 1 ELSE 0)]
                /\ listing' = dir
                /\ UNCHANGED <<temp_path, script_text, files_before>>
           ELSE /\ StartScript(r, c, dir)
                /\ UNCHANGED <<installed_packages, to_install, installer, invocations>>
    /\ last_stdout' = [last_stdout EXCEPT ![r] = <<>>]
    /\ UNCHANGED <<covered, file_vars>>

\* the installer process of request r exits and install_requirements resumes
\* (lines 71-74); on success execute_python_code goes on to the script.
\* The dependency manager may leave its lock file in the working directory.
InstallerExit(r, rc, stderr, lock) ==
    /\ pc[r] = "installing"
    /\ hung[r] # "installer"
    /\ can_resume(r)
    /\ LET dir == IF lock THEN add_entry(listing, LockName, "file") ELSE listing
       IN  IF install_failed(rc)
           THEN /\ result' = [result EXCEPT ![r] =
                                 Raised("RuntimeError", InstallFailedPrefix \o stderr)]
                /\ pc' = [pc EXCEPT ![r] = "done"]
                /\ listing' = dir
                /\ UNCHANGED <<temp_path, script_text, files_before>>
           ELSE /\ StartScript(r, code[r], dir)
                /\ UNCHANGED result
    /\ installer' = [installer EXCEPT ![r] = IF rc = 0 THEN "ok" ELSE "failed"]
    /\ covered' = IF rc = 0 THEN covered \cup to_install[r] ELSE covered
    /\ UNCHANGED <<installed_packages, environ, code, requirements, to_install,
                   returncode, last_stdout, invocations, calls, created, alone,
                   hung, file_vars>>

\* the running script of request r creates an entry in the working directory
ScriptWrite(r, e) ==
    /\ pc[r] = "running"
    /\ e.name \notin DOMAIN listing
    /\ listing' = add_entry(listing, e.name, e.kind)
    /\ created' = [created EXCEPT ![r] = @ \cup {e.name}]
    /\ UNCHANGED <<installed_packages, environ, pc, code, requirements, to_install,
                   temp_path, script_text, files_before, result, returncode,
                   last_stdout, invocations, calls, installer, covered, alone,
                   hung, file_vars>>

\* the script process of request r exits and execute_python_code resumes
\* (lines 128-156); leaving the with block deletes the script file
ScriptExit(r, rc, out, err) ==
    /\ pc[r] = "running"
    /\ hung[r] # "script"
    /\ can_resume(r)
    /\ returncode' = [returncode EXCEPT ![r] = rc]
    /\ last_stdout' = [last_stdout EXCEPT ![r] = out]
    /\ LET res == run_result(rc, out, err, listdir, files_before[r])
       IN  /\ result' = [result EXCEPT ![r] = res]
           /\ listing' = leave_with_block(listing, temp_path[r], res)
    /\ pc' = [pc EXCEPT ![r] = "done"]
    /\ UNCHANGED <<installed_packages, environ, code, requirements, to_install,
                   temp_path, script_text, files_before, invocations, calls,
                   installer, covered, created, alone, hung, file_vars>>

\* the result of request r has been delivered; its slot takes the next request
Return(r) ==
    /\ pc[r] = "done"
    /\ pc' = [pc EXCEPT ![r] = "idle"]
    /\ code' = [code EXCEPT ![r] = <<>>]
    /\ requirements' = [requirements EXCEPT ![r] = <<>>]
    /\ to_install' = [to_install EXCEPT ![r] = {}]
    /\ temp_path' = [temp_path EXCEPT ![r] = None]
    /\ script_text' = [script_text EXCEPT ![r] = <<>>]
    /\ files_before' = [files_before EXCEPT ![r] = {}]
    /\ result' = [result EXCEPT ![r] = NoResult]
    /\ returncode' = [returncode EXCEPT ![r] = -1]
    /\ last_stdout' = [last_stdout EXCEPT ![r] = <<>>]
    /\ installer' = [installer EXCEPT ![r] = "none"]
    /\ created' = [created EXCEPT ![r] = {}]
    /\ alone' = [alone EXCEPT ![r] = TRUE]
    /\ UNCHANGED <<installed_packages, environ, listing, invocations, calls, covered,
                   hung, file_vars>>

NextWith(max_calls, codes, reqs, entries, outs, hangs) ==
    \/ \E r \in Requests, c \in codes, q \in reqs, h \in hangs :
           Call(max_calls, r, c, q, h)
    \/ \E r \in Requests, rc \in ExitCodes, e \in InstallerStdErrs, lock \in BOOLEAN :
           InstallerExit(r, rc, e, lock)
    \/ \E r \in Requests, e \in entries : ScriptWrite(r, e)
    \/ \E r \in Requests, rc \in ExitCodes, o \in outs, e \in ScriptStdErrs :
           ScriptExit(r, rc, o, e)
    \/ \E r \in Requests : Return(r)

(***************************************************************************)
(* The file readers, called on a working directory that earlier requests   *)
(* have filled.                                                            *)
(***************************************************************************)
\* longest path, in parts, given to a file reader
MaxPathParts == 3

\* the names a path given to a file reader is made of
PathNames ==
    { <<".", ".">>, <<"w">>, <<"w", "x">>, <<"c", ".", "t", "x", "t">>,
      <<"s", ".", "p", "n", "g">>, <<"a", ".", "P", "N", "G">>,
      <<"d", ".", "g", "i", "f">>, <<"e", ".", "p", "n", "g">> }

RECURSIVE PartLists(_)
PartLists(n) ==
    IF n = 0 THEN { <<>> }
    ELSE LET shorter == PartLists(n - 1)
         IN  shorter \cup { Append(l, x) : l \in shorter, x \in PathNames }

\* relative text of a list of parts: the parts with "/" between them
RelText(parts) == join(<<"/">>, parts)

PathInputs ==
    { RelText(l) : l \in PartLists(MaxPathParts) } \cup
    { <<"/">> \o RelText(l) : l \in PartLists(MaxPathParts) }

FileSizes == { 0, 1, 511, 512, 513, 1023, 1024, 1025, 2048, 2049 }
MaxSizes == { 0, 1, 2 }

\* the working directory after requests whose scripts created a.PNG, c.txt
\* and the directory d.gif
FilledDir ==
    ( CacheName :> "dir" ) @@
    ( <<"a", ".", "P", "N", "G">> :> "file" ) @@
    ( <<"c", ".", "t", "x", "t">> :> "file" ) @@
    ( <<"d", ".", "g", "i", "f">> :> "dir" )

FilledData ==
    { ( <<"a", ".", "P", "N", "G">> :> [size |-> 8, utf8 |-> FALSE] ) @@
      ( <<"c", ".", "t", "x", "t">> :> [size |-> n, utf8 |-> u] ) :
          n \in FileSizes, u \in BOOLEAN }

ReadFile(file_path, max_size_kb) ==
    /\ tool_call' = [tool |-> "read_file", file_path |-> file_path,
                     max_size_kb |-> max_size_kb]
    /\ tool_result' = read_file(file_path, max_size_kb)
    /\ UNCHANGED <<engine_vars, file_data>>

ReadImageFile(file_path) ==
    /\ tool_call' = [tool |-> "read_image_file", file_path |-> file_path,
                     max_size_kb |-> 0]
    /\ tool_result' = read_image_file(file_path)
    /\ UNCHANGED <<engine_vars, file_data>>

InitFiles == InitWith({None}, {FilledDir}, FilledData)
\* one call of a file reader per behaviour
ReadFileCall ==
    tool_call.tool = "none" /\ \E p \in PathInputs, m \in MaxSizes : ReadFile(p, m)
ReadImageFileCall ==
    tool_call.tool = "none" /\ \E p \in PathInputs : ReadImageFile(p)
NextFiles == ReadFileCall \/ ReadImageFileCall
SpecFiles == InitFiles /\ [][NextFiles]_vars

\* the installer's view: every requirements string, one script, one new file
InstallEntries == { e \in UserEntries : e.name = <<"c", ".", "t", "x", "t">> }
InitInstall == InitWith({None}, { << >> }, { << >> })
NextInstall == NextWith(MaxInstallCalls, {<<"x">>}, RequirementStrings, InstallEntries, {<<"4", "\n">>}, {"none"})
SpecInstall == InitInstall /\ [][NextInstall]_vars

\* the output view: every entry a script may create, two requirements strings
InitOutput == InitWith({None}, { << >> }, { << >> })
NextOutput == NextWith(MaxOutputCalls, {<<"x">>}, {<<>>, <<"p">>}, UserEntries, {<<"4", "\n">>}, {"none"})
SpecOutput == InitOutput /\ [][NextOutput]_vars

\* the scheduling view: a child process of a request may never exit. The event
\* loop is fair to every request: a continuation that stays ready to run is
\* run, and a child process that is not hung exits
Hangs == {"none", "installer", "script"}
InitLive == InitWith({None}, { << >> }, { << >> })
NextLive == NextWith(MaxLiveCalls, {<<"x">>}, {<<>>, <<"p">>}, InstallEntries, {<<"4", "\n">>}, Hangs)
LiveExit(r) ==
    \/ \E rc \in ExitCodes, e \in InstallerStdErrs, lock \in BOOLEAN :
           InstallerExit(r, rc, e, lock)
    \/ \E rc \in ExitCodes, e \in ScriptStdErrs : ScriptExit(r, rc, <<"4", "\n">>, e)
SpecLive == InitLive /\ [][NextLive]_vars /\ \A r \in Requests : WF_vars(LiveExit(r))

\* the text view: one request at a time, every code, every stdout and every
\* value of HOST_PROJECT_PATH
TextEntries ==
    { e \in UserEntries : e.name \in { <<"a", ".", "P", "N", "G">>,
                                        <<"c", ".", "t", "x", "t">> } }
InitText == InitWith(HostProjectPaths, { << >> }, { << >> })
NextText == NextWith(MaxTextCalls, Codes, {<<>>, <<"p">>}, TextEntries, StdOuts, {"none"})
SpecText == InitText /\ [][NextText]_vars

(***************************************************************************)
(* Properties of install_requirements (checked under SpecInstall).         *)
(***************************************************************************)
\* the tokens a requirements string names, written out for the modelled inputs
TokensOf(q) ==
    IF q = <<"p">> THEN { <<"p">> }
    ELSE IF q = <<"q">> THEN { <<"q">> }
    ELSE IF q = <<"p", " ", "q">> THEN { <<"p">>, <<"q">> }
    ELSE {}

\* C1: a token is in InstalledSet[dir] only after an installer process given
\* that token has exited with 0; in particular the tokens of a request whose
\* installer exited non-zero are not in InstalledSet[dir] because of it.
C1_NoInstallRecordedOnFailure ==
    \A r \in Requests :
        installer[r] = "failed" =>
            (to_install[r] \cap installed_done(default_working_dir)) \subseteq covered

\* C2: when a request arrives, an installer process is spawned exactly when
\* some requested token is not in InstalledSet[dir], and it is passed exactly
\* the requested tokens that are not in InstalledSet[dir].
C2_InstallerGetsMissingTokens ==
    [][\A r \in Requests :
          (pc[r] = "idle" /\ pc'[r] # "idle") =>
              LET missing == { t \in TokensOf(requirements'[r]) :
                                   t \notin installed_done(default_working_dir) }
              IN  /\ (installer'[r] = "running") <=> (missing # {})
                  /\ installer'[r] = "running" =>
                         /\ pc'[r] = "installing"
                         /\ to_install'[r] = missing
                  /\ installer'[r] # "running" =>
                         /\ installer'[r] = "none"
                         /\ pc'[r] = "running"]_vars

\* C2 witness: a request naming p and q, p being installed already, has an
\* installer running that was given q alone, while a request naming p alone
\* runs its script without any installer.
C2_Witness ==
    \E r, o \in Requests :
        /\ requirements[r] = <<"p", " ", "q">>
        /\ installer[r] = "running"
        /\ to_install[r] = { <<"q">> }
        /\ requirements[o] = <<"p">>
        /\ installer[o] = "none"
        /\ pc[o] = "running"

\* C3: a request's script file exists and its script process runs only if the
\* request needed no installer or its installer exited with 0; a request
\* whose installer exited non-zero has ended with the installation error that
\* carries the installer's stderr, without a script file or a script process.
C3_InstallBeforeRun ==
    \A r \in Requests :
        /\ (pc[r] = "running" \/ temp_path[r] # None \/ returncode[r] # -1) =>
               installer[r] \in {"none", "ok"}
        /\ installer[r] = "running" => pc[r] = "installing"
        /\ installer[r] = "failed" =>
               /\ pc[r] = "done"
               /\ result[r].kind = "error"
               /\ result[r].exc = "RuntimeError"
               /\ \E e \in InstallerStdErrs : result[r].text = InstallFailedPrefix \o e
               /\ temp_path[r] = None
               /\ TempName(r) \notin listdir
               /\ returncode[r] = -1

\* C3 witness: a request has ended on an installer that exited non-zero
C3_Witness ==
    \E r \in Requests : installer[r] = "failed" /\ pc[r] = "done"

\* C9: while a request's script process runs, every token of its requirements
\* has been given to an installer process that exited with 0.
C9_RequirementsInstalledAtRun ==
    \A r \in Requests :
        pc[r] = "running" => TokensOf(requirements[r]) \subseteq covered

(***************************************************************************)
(* Properties of the result of execute_python_code (checked under          *)
(* SpecOutput).                                                            *)
(***************************************************************************)
\* the modelled names whose extension is an image extension in any case
IsImageName(n) ==
    n \in { <<"a", ".", "P", "N", "G">>, <<"b", ".", "j", "p", "g">>,
            <<"d", ".", "g", "i", "f">> }

\* strictly ascending by code point: sorted, no name twice
StrictlySorted(files) ==
    \A i, j \in DOMAIN files : i < j => str_less(files[i], files[j])

\* C4: a request whose script exited non-zero has ended with the execution
\* error that carries the trimmed stderr text and reports no output file and
\* no image, whatever its script created.
C4_FailedRunReportsNothing ==
    \A r \in Requests :
        (pc[r] = "done" /\ returncode[r] \notin {-1, 0}) =>
            /\ result[r].kind = "error"
            /\ result[r].exc = "Exception"
            /\ result[r].text = <<"E">>
            /\ result[r].files = <<>>
            /\ result[r].image = None

\* C4 witness: a script created an entry and then exited non-zero
C4_Witness ==
    \E r \in Requests :
        pc[r] = "done" /\ returncode[r] = 1 /\ created[r] # {}

\* what C5 says is reported by request r, which has ended
C5_ReportsItsNewFiles(r) ==
    /\ Range(result[r].files) =
          (listdir \ files_before[r]) \ {LockName, CacheName, TempName(r)}
    /\ Range(result[r].files) = created[r]
    /\ StrictlySorted(result[r].files)

\* C5 as stated: a request that ran alone and whose script exited with 0
\* reports exactly the entries that are new, without the lock file, the cache
\* directory and its script file, sorted and without duplicates.
C5_AloneReportsNewFiles ==
    \A r \in Requests :
        (pc[r] = "done" /\ alone[r] /\ returncode[r] = 0) => C5_ReportsItsNewFiles(r)

\* C5 amended: the same, for a request that returns a result (the call raises
\* instead when the only new entry has an image extension and is not a
\* regular file).
C5_AloneReturnedReportsNewFiles ==
    \A r \in Requests :
        (pc[r] = "done" /\ alone[r] /\ returncode[r] = 0 /\ result[r].kind # "error")
            => C5_ReportsItsNewFiles(r)

\* C5 witness: a request that installed a requirement (the lock file was
\* written) ran alone, its script created two files, neither is an image
\* alone, and both are reported
C5_Witness ==
    \E r \in Requests :
        /\ pc[r] = "done" /\ alone[r] /\ returncode[r] = 0
        /\ LockName \in listdir
        /\ result[r].files = << <<"a", ".", "P", "N", "G">>, <<"c", ".", "t", "x", "t">> >>

\* the new files of request r when its script exits: the entries of the
\* working directory, the cache directory aside, that were not there before
C6_NewFiles(r) == (listdir \ {CacheName}) \ files_before[r]

\* C6 as stated: a script that exited with 0 gives the single-image result
\* exactly when there is one new file and it has an image extension; any
\* other non-empty set of new files gives the file-list text.
C6_ImageIffOneImageName ==
    [][\A r \in Requests :
          (pc[r] = "running" /\ pc'[r] = "done" /\ returncode'[r] = 0) =>
              LET nf == C6_NewFiles(r)
                  one_image == Cardinality(nf) = 1 /\ \A n \in nf : IsImageName(n)
              IN  /\ (result'[r].kind = "image") <=> one_image
                  /\ (nf # {} /\ ~one_image) =>
                         (result'[r].kind = "text" /\ Range(result'[r].files) = nf)]_vars

\* C6 amended: the single-image result is given exactly when there is one new
\* entry, it has an image extension and it is a regular file; when it is not
\* a regular file the call raises read_image_file's error; any other
\* non-empty set of new files gives the file-list text.
C6_ImageIffOneImageFile ==
    [][\A r \in Requests :
          (pc[r] = "running" /\ pc'[r] = "done" /\ returncode'[r] = 0) =>
              LET nf == C6_NewFiles(r)
                  one_image == Cardinality(nf) = 1 /\ \A n \in nf : IsImageName(n)
                  regular == \A n \in nf : listing[n] = "file"
              IN  /\ (result'[r].kind = "image") <=> (one_image /\ regular)
                  /\ result'[r].kind = "image" =>
                         /\ Range(result'[r].files) = nf
                         /\ result'[r].text = <<"4">>
                  /\ (one_image /\ ~regular) =>
                         (result'[r].kind = "error" /\ result'[r].exc = "FileNotFoundError")
                  /\ (nf # {} /\ ~one_image) =>
                         (result'[r].kind = "text" /\ Range(result'[r].files) = nf)]_vars

\* C6 witness: the only new file is a.PNG and the result is the single image
C6_Witness ==
    \E r \in Requests :
        /\ pc[r] = "done"
        /\ result[r].kind = "image"
        /\ result[r].files = << <<"a", ".", "P", "N", "G">> >>
        /\ result[r].image = <<"/", "w", "/", "a", ".", "P", "N", "G">>

\* C8: no result names a script file, the request's own or another's.
C8_NoScriptFileReported ==
    \A r, o \in Requests :
        pc[r] = "done" => TempName(o) \notin Range(result[r].files)

(***************************************************************************)
(* Properties of the file readers (checked under SpecFiles).               *)
(***************************************************************************)
\* the working directory or an entry below it
InsideRoot(loc) ==
    /\ Len(loc) >= Len(default_working_dir)
    /\ SubSeq(loc, 1, Len(default_working_dir)) = default_working_dir

\* C7: read_image_file raises the access-denied error, and returns no
\* payload, for every path whose resolved location is neither the working
\* directory nor below it; stated for the paths that lead to an existing
\* regular file, the ones that have a payload to give away.
C7_OutsideIsDenied ==
    tool_call.tool = "read_image_file" =>
        LET loc == resolve(joinpath(default_working_dir, tool_call.file_path))
        IN  (~InsideRoot(loc) /\ kind_of(loc) = "file") =>
                tool_result = Raised("ValueError", AccessDeniedMessage)

\* C10: read_file returns a string whatever the path: the not-found error
\* for a path that does not exist, the too-large error, without reading, for
\* a file of more than max_size_kb * 1024 bytes, and otherwise the whole file
\* as text, or as a hex preview of at most 1024 characters when it is not
\* UTF-8.
C10_ReadFileReturns ==
    tool_call.tool = "read_file" =>
        LET path == joinpath(default_working_dir, tool_call.file_path)
            limit == tool_call.max_size_kb * 1024
        IN  /\ tool_result.kind = "returned"
            /\ ~exists(path) =>
                   /\ tool_result.form = "error"
                   /\ tool_result.error = "FileNotFoundError"
                   /\ tool_result.bytes_read = -1
            /\ is_file(path) =>
                   LET data == data_of(resolve(path))
                   IN  /\ data.size > limit =>
                              /\ tool_result.form = "error"
                              /\ tool_result.error = "Exception"
                              /\ tool_result.bytes_read = -1
                       /\ data.size <= limit =>
                              /\ tool_result.bytes_read = data.size
                              /\ data.utf8 => tool_result.form \in {"fenced", "plain"}
                              /\ ~data.utf8 =>
                                     /\ tool_result.form = "binary"
                                     /\ tool_result.hex_chars <= 1024
                                     /\ tool_result.hex_chars =
                                            IF data.size >= 512 THEN 1024
                                            ELSE 2 * data.size

\* C10 witness: c.txt holds 1025 bytes, one more than the limit of 1 KB, and
\* read_file returned the too-large error without reading it
C10_Witness ==
    /\ tool_call.tool = "read_file"
    /\ tool_call.file_path = <<"c", ".", "t", "x", "t">>
    /\ tool_call.max_size_kb = 1
    /\ file_data[<<"c", ".", "t", "x", "t">>].size = 1025
    /\ tool_result.form = "error"
    /\ tool_result.error = "Exception"

\* C11: InstalledSet[dir] only grows and no union-update is lost: in every
\* step of every interleaving the new installed_packages[dir] holds the old
\* one, a request that spawns an installer adds exactly its new tokens to it,
\* and the tokens recorded by every request in flight are still in it.
C11_InstalledSetOnlyGrows ==
    [][/\ installed_done(default_working_dir) \subseteq
              installed_done(default_working_dir)'
       /\ \A r \in Requests :
              /\ (pc[r] = "idle" /\ installer'[r] = "running") =>
                     installed_done(default_working_dir)' =
                         installed_done(default_working_dir) \cup to_install'[r]
              /\ installer'[r] # "none" =>
                     to_install'[r] \subseteq installed_done(default_working_dir)'
      ]_vars

\* C11 witness: two requests overlap, one recorded p and the other q, both
\* installers are still running and installed_packages[dir] holds p and q
C11_Witness ==
    /\ installer[1] = "running" /\ to_install[1] = { <<"p">> }
    /\ installer[2] = "running" /\ to_install[2] = { <<"q">> }
    /\ installed_done(default_working_dir) = { <<"p">>, <<"q">> }

\* C12: over any sequence and interleaving of requests no requirement token is
\* passed to more than one installer process of the working directory.
C12_TokenInstalledAtMostOnce ==
    \A t \in DOMAIN invocations : invocations[t] <= 1

\* C12 witness: two overlapping requests both name p, which was not installed
\* when the first arrived; the first has an installer running that was given
\* p, the second runs its script without an installer
C12_Witness ==
    /\ requirements[1] = <<"p">> /\ installer[1] = "running"
    /\ requirements[2] = <<"p">> /\ installer[2] = "none" /\ pc[2] = "running"
    /\ invocations = ( <<"p">> :> 1 )

\* C13: the directory listing is not protected against other requests. A
\* request that did not overlap any other lists only files its own script
\* created; the witness is the interleaving in which a request lists a file
\* that the script of an overlapping request created.
C13_AloneListsOwnFilesOnly ==
    \A r \in Requests :
        (pc[r] = "done" /\ alone[r]) => Range(result[r].files) \subseteq created[r]

\* C13 witness: request r has finished successfully and its result lists a
\* file that its own script did not create and that the script of the other
\* request, still running, created after r took its snapshot
C13_Witness ==
    \E r \in Requests : \E o \in Requests \ {r} :
        /\ pc[r] = "done" /\ returncode[r] = 0 /\ pc[o] = "running"
        /\ \E f \in Range(result[r].files) :
               /\ f \in created[o]
               /\ f \notin created[r]
               /\ f \notin files_before[r]

\* C14: a request whose child process never exits blocks that request alone.
\* Under fair scheduling every request none of whose child processes hangs
\* ends with a result or an error, whatever the other request does; and a
\* request ends only in the step in which its installer exited non-zero or its
\* script process exited.
C14_HungChildBlocksOnlyItsRequest ==
    /\ \A r \in Requests :
           (pc[r] # "idle" /\ hung[r] = "none") ~> (pc[r] = "done")
    /\ [][\A r \in Requests :
             (pc[r] # "done" /\ pc'[r] = "done") =>
                 \/ pc[r] = "installing" /\ installer[r] = "running"
                       /\ installer'[r] = "failed"
                 \/ pc[r] = "running" /\ returncode[r] = -1
                       /\ returncode'[r] # -1]_vars

\* C14 witness: the first request waits for a script process that never
\* exits, and a request that arrived after it has ended with its result
C14_Witness ==
    /\ pc[1] = "running" /\ hung[1] = "script"
    /\ pc[2] = "done" /\ hung[2] = "none" /\ result[2].kind = "text"

\* the body of a fenced code: the text between the opening fence and the
\* closing fence, without the white space around it
IsFenced(c) == startswith(c, FenceOpen) /\ endswith(c, FenceClose)
FencedBody(c) == strip(SubSeq(c, Len(FenceOpen) + 1, Len(c) - Len(FenceClose)))

\* C15: the text written to the script file of a fenced code is exactly its
\* fenced body, no character of the body dropped; any other code is written
\* unchanged.
C15_ScriptIsFencedBody ==
    \A r \in Requests :
        temp_path[r] # None =>
            script_text[r] = IF IsFenced(code[r]) THEN FencedBody(code[r]) ELSE code[r]

\* C16: the script file of a request is in the working directory exactly while
\* the request's script process runs: it is gone when the request has ended,
\* by a result or by an error, and no script file is left once no request is
\* in flight.
C16_ScriptFileOnlyWhileRunning ==
    \A r \in Requests : (TempName(r) \in listdir) <=> (pc[r] = "running")

\* C16 witness: a request has ended with the error of a script that exited
\* non-zero after creating a file; the created file is there, the script file
\* is not
C16_Witness ==
    \E r \in Requests :
        /\ pc[r] = "done" /\ returncode[r] = 1 /\ result[r].kind = "error"
        /\ created[r] # {} /\ created[r] \subseteq listdir
        /\ TempName(r) \notin listdir

\* the stdout texts of the model without the white space around them
TrimmedOut(o) == IF o = <<"4", "\n">> THEN <<"4">> ELSE <<>>

\* every name on a line of its own, after what precedes
RECURSIVE NameLines(_)
NameLines(files) ==
    IF files = <<>> THEN <<>> ELSE <<"\n">> \o Head(files) \o NameLines(Tail(files))

\* the header of the file list the claim names
HeaderFor(value) ==
    IF value \notin {None, <<>>}
    THEN <<"F", "i", "l", "e", "s", " ", "c", "r", "e", "a", "t", "e", "d", " ",
           "a", "t", " ">> \o value \o <<":">>
    ELSE <<"O", "u", "t", "p", "u", "t", " ", "F", "i", "l", "e", "s", ":">>

\* C17: a script that exits with 0, unless its only new file has an image
\* extension, gives a text result: the trimmed stdout alone when there is no
\* new file; otherwise the trimmed stdout, the header ("Files created at
\* <value>:" when HOST_PROJECT_PATH is set and not empty, "Output Files:"
\* otherwise) and the new names in sorted order, one per line.
C17_TextResultFormat ==
    [][\A r \in Requests :
          (pc[r] = "running" /\ pc'[r] = "done" /\ returncode'[r] = 0) =>
              LET nf == (listdir \ {CacheName}) \ files_before[r]
                  out == TrimmedOut(last_stdout'[r])
                  res == result'[r]
              IN  ~(Cardinality(nf) = 1 /\ \E n \in nf : IsImageName(n)) =>
                      /\ res.kind = "text"
                      /\ nf = {} => res.text = out /\ res.files = <<>>
                      /\ nf # {} =>
                             /\ Range(res.files) = nf
                             /\ StrictlySorted(res.files)
                             /\ res.text =
                                    out \o <<"\n">>
                                        \o HeaderFor(environ["HOST_PROJECT_PATH"])
                                        \o NameLines(res.files)]_vars

\* C17 witness: HOST_PROJECT_PATH is /h, the script printed 4 and created
\* c.txt and a.PNG, and the result text is the four lines "4", "Files created
\* at /h:", "a.PNG", "c.txt"
C17_Witness ==
    \E r \in Requests :
        /\ pc[r] = "done" /\ returncode[r] = 0
        /\ environ["HOST_PROJECT_PATH"] = <<"/", "h">>
        /\ result[r].kind = "text"
        /\ result[r].text =
               <<"4", "\n">>
               \o <<"F", "i", "l", "e", "s", " ", "c", "r", "e", "a", "t", "e", "d", " ",
                    "a", "t", " ", "/", "h", ":", "\n">>
               \o <<"a", ".", "P", "N", "G", "\n">>
               \o <<"c", ".", "t", "x", "t">>

\* C18: read_file has no containment check and read_image_file has one: for a
\* path that leads to an existing regular file outside the working directory,
\* read_file returns the content of the file when it is within the size limit,
\* and read_image_file raises the access-denied error.
C18_ReadFileReadsWhatImageFileDenies ==
    tool_call.tool # "none" =>
        LET path == joinpath(default_working_dir, tool_call.file_path)
            loc == resolve(path)
        IN  (~InsideRoot(loc) /\ is_file(path)) =>
                /\ (/\ tool_call.tool = "read_file"
                    /\ data_of(loc).size <= tool_call.max_size_kb * KB) =>
                       /\ tool_result.kind = "returned"
                       /\ tool_result.form \in {"plain", "fenced", "binary"}
                       /\ tool_result.bytes_read = data_of(loc).size
                /\ tool_call.tool = "read_image_file" =>
                       tool_result = Raised("ValueError", AccessDeniedMessage)

====
